---- MODULE Spec2Model ----
(***************************************************************************)
(* Model of src/app.py: the PCB placement log analysis.                    *)
(*                                                                         *)
(* The program loops over the uploaded files; a file that cannot be read   *)
(* is skipped, a readable one is reduced to the five relevant columns,     *)
(* rows with a missing value are dropped, Result is coerced to an integer, *)
(* the rows are grouped by PartNumber and every group is scanned with a    *)
(* 3-attempt window for halts and replenishments.                          *)
(*                                                                         *)
(* Text cells (batch numbers, raw Result cells) are sequences of           *)
(* characters so that strip() and to_numeric() are computed, not assumed.  *)
(* An empty cell is what read_csv turns into NaN: "" for the plain string  *)
(* columns, << >> for the character-sequence columns.                      *)
(* Indices i, j, n are 0-based as in the source; loc(group, k) reads row k.*)
(***************************************************************************)
EXTENDS Integers, Sequences, FiniteSets, TLC

VARIABLES uploaded_files, f, pc, df_relevant, all_data, groups, group, n, i,
          all_halts, replenishments, log

vars == <<uploaded_files, f, pc, df_relevant, all_data, groups, group, n, i,
          all_halts, replenishments, log>>

(***************************************************************************)
(* Bounds of the explored inputs.                                          *)
(***************************************************************************)
MaxLen == 5
MaxRun == 8
MaxTail == 10
MaxLenW == 4
MaxRowsG == 4
MaxRowsB == 5
MaxFiles == 3

SeqsUpTo(S, k) == UNION {[1..m -> S] : m \in 0..k}

(***************************************************************************)
(* Text helpers.                                                           *)
(***************************************************************************)
IsSpace(c) == c = " "

RECURSIVE LStrip(_)
LStrip(s) == IF s # <<>> /\ IsSpace(Head(s)) THEN LStrip(Tail(s)) ELSE s

RECURSIVE RStrip(_)
RStrip(s) ==
  IF s # <<>> /\ IsSpace(s[Len(s)]) THEN RStrip(SubSeq(s, 1, Len(s) - 1)) ELSE s

Strip(s) == RStrip(LStrip(s))

IsDigit(c) == c \in {"0", "1", "2", "3", "4", "5", "6", "7", "8", "9"}

DigitVal(c) ==
  CASE c = "0" -> 0 [] c = "1" -> 1 [] c = "2" -> 2 [] c = "3" -> 3
    [] c = "4" -> 4 [] c = "5" -> 5 [] c = "6" -> 6 [] c = "7" -> 7
    [] c = "8" -> 8 [] c = "9" -> 9

RECURSIVE DecVal(_)
DecVal(s) == IF s = <<>> THEN 0 ELSE 10 * DecVal(SubSeq(s, 1, Len(s) - 1)) + DigitVal(s[Len(s)])

IsNumeric(s) == s # <<>> /\ \A k \in 1..Len(s) : IsDigit(s[k])

\* pd.to_numeric(errors="coerce").fillna(0).astype(int) on one cell
ToInt(s) == IF IsNumeric(s) THEN DecVal(s) ELSE 0

failure_meanings(code) ==
  CASE code = 2 -> "Rejected by vision before electrical test"
    [] code = 3 -> "Rejected by vision after electrical test"
    [] code = 4 -> "Rejected by electrical test"
    [] code = 5 -> "Not placed (lost after electrical test)"
    [] code = 6 -> "Not taken by the machine"
    [] code = 7 -> "Rejected by vision before pick-up"
    [] OTHER -> "Unknown failure"

(***************************************************************************)
(* Step 3: the relevant columns, dropna, coercion of Result.               *)
(***************************************************************************)
IsNa(row) ==
  \/ row.PartNumber = ""
  \/ row.Description = ""
  \/ row.Reference = ""
  \/ row.BatchNumber = <<>>
  \/ row.Result = <<>>

DropNaKeepsMissingResult(rows) ==
  SelectSeq(rows, LAMBDA r : ~(r.PartNumber = "" \/ r.Description = "" \/ r.Reference = ""
                               \/ r.BatchNumber = <<>>))
DropNa(rows) == SelectSeq(rows, LAMBDA r : ~IsNa(r))

Attempt(row, file) ==
  [PartNumber |-> row.PartNumber, Description |-> row.Description,
   Reference |-> row.Reference, BatchNumber |-> row.BatchNumber,
   Result |-> ToInt(row.Result), ProductName |-> file.product, File |-> file.name]

BuildRelevant(file) ==
  LET kept == DropNa(file.rows)
  IN [k \in 1..Len(kept) |-> Attempt(kept[k], file)]

(***************************************************************************)
(* Step 4 helpers: grouping and the window scan.                           *)
(***************************************************************************)
PartOrder == <<"P1", "P2">>

GroupKey(a) == a.PartNumber

\* groupby("PartNumber"): the keys present, in sorted order
GroupKeys(df) ==
  SelectSeq(PartOrder, LAMBDA p : \E k \in 1..Len(df) : GroupKey(df[k]) = p)

\* one group, reset_index(drop=True)
GroupRows(df, key) == SelectSeq(df, LAMBDA a : GroupKey(a) = key)

loc(g, k) == g[k + 1]

IsFail(a) == a.Result # 0

Window(g, k) == IsFail(loc(g, k)) /\ IsFail(loc(g, k + 1)) /\ IsFail(loc(g, k + 2))

batch_here_last(g, k) == Strip(loc(g, k + 2).BatchNumber)
batch_here(g, k) == Strip(loc(g, k).BatchNumber)

next_batch_raw(g, j) == loc(g, j).BatchNumber
next_batch(g, j) == Strip(loc(g, j).BatchNumber)

\* group.loc[i+3:][group["Result"] == 0] as the set of its index labels
future_pass(g, k) == {j \in (k + 3)..(Len(g) - 1) : loc(g, j).Result = 0}

Min(S) == CHOOSE x \in S : \A y \in S : x <= y

next_pass_idx(g, k) == Min(future_pass(g, k))

IsReplenishment(g, k, j) == next_batch(g, j) # batch_here(g, k)

Event(g, k) ==
  [ProductName |-> loc(g, k).ProductName, File |-> loc(g, k).File,
   PartNumber |-> loc(g, k).PartNumber, Description |-> loc(g, k).Description,
   Reference |-> loc(g, k).Reference, BatchNumber |-> batch_here(g, k),
   MainFailType |-> failure_meanings(loc(g, k).Result)]

AfterResolvedByOne(k, j) == k + 1
AfterResolved(k, j) == j + 1

AfterUnresolved(k) == k + 3

AfterNoMatch(k) == k + 1

LoopGuardOffByOne(k, len) == k <= len - 2
LoopGuard(k, len) == k <= len - 3

AfterReadErrorAbort(k, len) == len + 1
AfterReadError(k, len) == k + 1

(***************************************************************************)
(* Inputs.                                                                 *)
(***************************************************************************)
BA == <<"A">>
BB == <<"B">>
R0 == <<"0">>
R2 == <<"2">>
RX == <<"x">>

Row(p, r, b, res) ==
  [PartNumber |-> p, Description |-> "D1", Reference |-> r, BatchNumber |-> b, Result |-> res]

File(nm, rows) == [name |-> nm, product |-> "Prod", ok |-> TRUE, rows |-> rows]
BadFile(nm) == [name |-> nm, product |-> "Unknown", ok |-> FALSE, rows |-> <<>>]

\* one component, two batches, short sequences
RowsS == {Row("P1", "R1", b, res) : b \in {BA, BB}, res \in {R0, R2}}
\* one component, failures on one batch, longer sequences
RowsL == {Row("P1", "R1", BA, R2), Row("P1", "R1", BA, R0), Row("P1", "R1", BB, R0)}
\* one component, one batch, long runs
RowsT == {Row("P1", "R1", BA, R2), Row("P1", "R1", BA, R0)}
\* batch identifiers with leading and trailing blanks
RowsW == {Row("P1", "R1", b, res) :
            b \in {BA, <<" ", "A">>, <<"A", " ">>, BB}, res \in {R0, R2}}
\* two part numbers, two board positions
RowsG == {Row(p, r, BA, res) : p \in {"P1", "P2"}, r \in {"R1", "R2"}, res \in {R0, R2}}
\* cells that are absent or not numeric
RowsB == {Row("P1", "R1", BA, res) : res \in {R0, R2, RX, <<>>}}
           \cup {Row("", "R1", BA, R2), Row("P1", "", BA, R2)}

FileNames == <<"f1", "f2", "f3", "f4">>

\* contents of the files of a multi-file upload
ContentsM == {<<Row("P1", "R1", BA, R2), Row("P1", "R1", BA, R2), Row("P1", "R1", BA, R2), r>>
                : r \in RowsL}

SingleFileInputs ==
  {<<File("f1", rows)>> :
     rows \in SeqsUpTo(RowsS, MaxLen) \cup SeqsUpTo(RowsL, MaxRun)
              \cup SeqsUpTo(RowsT, MaxTail) \cup SeqsUpTo(RowsW, MaxLenW)
              \cup SeqsUpTo(RowsG, MaxRowsG) \cup SeqsUpTo(RowsB, MaxRowsB)}

FileChoices(k) == {BadFile(FileNames[k])} \cup {File(FileNames[k], c) : c \in ContentsM}

MultiFileInputs ==
  UNION {{fs \in [1..m -> UNION {FileChoices(k) : k \in 1..m}] :
            \A k \in 1..m : fs[k].name = FileNames[k]} : m \in 1..MaxFiles}

Inputs == SingleFileInputs \cup MultiFileInputs

(***************************************************************************)
(* The program.                                                            *)
(***************************************************************************)
Init ==
  /\ uploaded_files \in Inputs
  /\ f = 1
  /\ pc = "file"
  /\ df_relevant = <<>>
  /\ all_data = <<>>
  /\ groups = <<>>
  /\ group = <<>>
  /\ n = 0
  /\ i = 0
  /\ all_halts = <<>>
  /\ replenishments = <<>>
  /\ log = <<>>

\* lines 41-52: read_csv raises, the file is skipped
ReadFileError ==
  /\ pc = "file"
  /\ f <= Len(uploaded_files)
  /\ ~uploaded_files[f].ok
  /\ f' = AfterReadError(f, Len(uploaded_files))
  /\ UNCHANGED <<uploaded_files, pc, df_relevant, all_data, groups, group, n, i,
                 all_halts, replenishments, log>>

\* lines 41-69: the file is read, reduced and grouped
LoadFile ==
  /\ pc = "file"
  /\ f <= Len(uploaded_files)
  /\ uploaded_files[f].ok
  /\ df_relevant' = BuildRelevant(uploaded_files[f])
  /\ all_data' = Append(all_data, df_relevant')
  /\ groups' = GroupKeys(df_relevant')
  /\ pc' = "group"
  /\ UNCHANGED <<uploaded_files, f, group, n, i, all_halts, replenishments, log>>

\* lines 69-72: the next group of the file
NextGroup ==
  /\ pc = "group"
  /\ groups # <<>>
  /\ group' = GroupRows(df_relevant, Head(groups))
  /\ n' = Len(group')
  /\ i' = 0
  /\ pc' = "scan"
  /\ UNCHANGED <<uploaded_files, f, df_relevant, all_data, groups, all_halts,
                 replenishments, log>>

\* line 69: no group left, on to the next file
GroupsDone ==
  /\ pc = "group"
  /\ groups = <<>>
  /\ f' = f + 1
  /\ pc' = "file"
  /\ UNCHANGED <<uploaded_files, df_relevant, all_data, groups, group, n, i,
                 all_halts, replenishments, log>>

LogEntry(kind, stop) ==
  [f |-> f, part |-> Head(groups), kind |-> kind, start |-> i, stop |-> stop]

\* lines 73-75, 109-110: the window at i is not three failures
ScanNoMatch ==
  /\ pc = "scan"
  /\ LoopGuard(i, n)
  /\ ~Window(group, i)
  /\ i' = AfterNoMatch(i)
  /\ UNCHANGED <<uploaded_files, f, pc, df_relevant, all_data, groups, group, n,
                 all_halts, replenishments, log>>

\* lines 75-93, 105-106: resolved on another batch
ScanReplenishment ==
  /\ pc = "scan"
  /\ LoopGuard(i, n)
  /\ Window(group, i)
  /\ future_pass(group, i) # {}
  /\ IsReplenishment(group, i, next_pass_idx(group, i))
  /\ replenishments' = Append(replenishments, Event(group, i))
  /\ log' = Append(log, LogEntry("Replenishment", next_pass_idx(group, i)))
  /\ i' = AfterResolved(i, next_pass_idx(group, i))
  /\ UNCHANGED <<uploaded_files, f, pc, df_relevant, all_data, groups, group, n, all_halts>>

\* lines 75-84, 94-103, 105-106: resolved on the same batch
ScanHalt ==
  /\ pc = "scan"
  /\ LoopGuard(i, n)
  /\ Window(group, i)
  /\ future_pass(group, i) # {}
  /\ ~IsReplenishment(group, i, next_pass_idx(group, i))
  /\ all_halts' = Append(all_halts, Event(group, i))
  /\ log' = Append(log, LogEntry("Halt", next_pass_idx(group, i)))
  /\ i' = AfterResolved(i, next_pass_idx(group, i))
  /\ UNCHANGED <<uploaded_files, f, pc, df_relevant, all_data, groups, group, n,
                 replenishments>>

ScanUnresolvedEmitsHalt ==
  /\ pc = "scan"
  /\ LoopGuard(i, n)
  /\ Window(group, i)
  /\ future_pass(group, i) = {}
  /\ all_halts' = Append(all_halts, Event(group, i))
  /\ log' = Append(log, LogEntry("Halt", i + 2))
  /\ i' = AfterUnresolved(i)
  /\ UNCHANGED <<uploaded_files, f, pc, df_relevant, all_data, groups, group, n,
                 replenishments>>

\* lines 75-81, 107-108: no later pass, nothing is appended
ScanUnresolved ==
  /\ pc = "scan"
  /\ LoopGuard(i, n)
  /\ Window(group, i)
  /\ future_pass(group, i) = {}
  /\ log' = Append(log, LogEntry("Dropped", i + 2))
  /\ i' = AfterUnresolved(i)
  /\ UNCHANGED <<uploaded_files, f, pc, df_relevant, all_data, groups, group, n,
                 all_halts, replenishments>>

\* line 73: the while condition fails, the group is finished
ScanExit ==
  /\ pc = "scan"
  /\ ~LoopGuard(i, n)
  /\ groups' = Tail(groups)
  /\ pc' = "group"
  /\ UNCHANGED <<uploaded_files, f, df_relevant, all_data, group, n, i,
                 all_halts, replenishments, log>>

\* lines 112-115: all files seen, the dataframes are built
BuildDataframes ==
  /\ pc = "file"
  /\ f > Len(uploaded_files)
  /\ pc' = "done"
  /\ UNCHANGED <<uploaded_files, f, df_relevant, all_data, groups, group, n, i,
                 all_halts, replenishments, log>>

Next ==
  \/ ReadFileError
  \/ LoadFile
  \/ NextGroup
  \/ GroupsDone
  \/ ScanNoMatch
  \/ ScanReplenishment
  \/ ScanHalt
  \/ ScanUnresolved
  \/ ScanExit
  \/ BuildDataframes

Spec == Init /\ [][Next]_vars


(***************************************************************************)
(* The same analysis as one function of the upload, used to compare the    *)
(* run on one upload with the run on a related upload.                     *)
(***************************************************************************)
RECURSIVE ScanFrom(_, _)
ScanFrom(g, k) ==
  IF ~LoopGuard(k, Len(g)) THEN <<>>
  ELSE IF ~Window(g, k) THEN ScanFrom(g, AfterNoMatch(k))
  ELSE IF future_pass(g, k) = {} THEN ScanFrom(g, AfterUnresolved(k))
  ELSE <<[kind |-> IF IsReplenishment(g, k, next_pass_idx(g, k))
                   THEN "Replenishment" ELSE "Halt",
          event |-> Event(g, k)]>>
       \o ScanFrom(g, AfterResolved(k, next_pass_idx(g, k)))

RECURSIVE DetectGroups(_, _)
DetectGroups(df, keys) ==
  IF keys = <<>> THEN <<>>
  ELSE ScanFrom(GroupRows(df, Head(keys)), 0) \o DetectGroups(df, Tail(keys))

DetectFile(file) == DetectGroups(BuildRelevant(file), GroupKeys(BuildRelevant(file)))

RECURSIVE DetectFiles(_)
DetectFiles(files) ==
  IF files = <<>> THEN <<>>
  ELSE (IF Head(files).ok THEN DetectFile(Head(files)) ELSE <<>>) \o DetectFiles(Tail(files))

EventsOfKind(evs, kind) ==
  LET sel == SelectSeq(evs, LAMBDA e : e.kind = kind)
  IN [k \in 1..Len(sel) |-> sel[k].event]

(***************************************************************************)
(* Vocabulary of the properties.                                           *)
(***************************************************************************)
Scanning == pc = "scan"
SequenceDone == pc = "scan" /\ i > n - 3

\* detections made so far in the sequence being scanned
CurLog == SelectSeq(log, LAMBDA e : e.f = f /\ e.part = Head(groups))
Emitted(l) == SelectSeq(l, LAMBDA e : e.kind # "Dropped")

Failing(g, k) == g[k + 1].Result # 0
Passing(g, k) == g[k + 1].Result = 0
Trimmed(g, k) == Strip(g[k + 1].BatchNumber)

HasPassFrom(g, k) == \E j \in k..(Len(g) - 1) : Passing(g, j)
IsFirstPassFrom(g, k, j) ==
  /\ j \in k..(Len(g) - 1)
  /\ Passing(g, j)
  /\ \A m \in k..(j - 1) : Failing(g, m)

CountKind(l, kind) == Len(SelectSeq(l, LAMBDA e : e.kind = kind))

\* the record appended for the k-th detection of the log
EventOfEntry(k) ==
  IF log[k].kind = "Halt" THEN all_halts[CountKind(SubSeq(log, 1, k), "Halt")]
  ELSE replenishments[CountKind(SubSeq(log, 1, k), "Replenishment")]

\* records appended so far for the sequence being scanned
RecordsOfSequence ==
  Len(SelectSeq(all_halts \o replenishments,
                LAMBDA e : e.File = uploaded_files[f].name /\ e.PartNumber = Head(groups)))

ListsFollowLog ==
  /\ Len(all_halts) = CountKind(log, "Halt")
  /\ Len(replenishments) = CountKind(log, "Replenishment")

(***************************************************************************)
(* C1. An episode detected at start index i whose first pass at an index   *)
(* >= i+3 is at j yields exactly one record: a replenishment if the        *)
(* trimmed batch of attempt j differs from the trimmed batch of attempt i, *)
(* a halt otherwise; the record carries the trimmed batch of attempt i.    *)
(* The batches of the attempts between i and j play no part.               *)
(***************************************************************************)
C1_ResolvedEpisodeClassified ==
  Scanning =>
    /\ ListsFollowLog
    /\ \A k \in 1..Len(log) :
         (log[k].f = f /\ log[k].part = Head(groups) /\ HasPassFrom(group, log[k].start + 3)) =>
           /\ log[k].kind \in {"Halt", "Replenishment"}
           /\ IsFirstPassFrom(group, log[k].start + 3, log[k].stop)
           /\ log[k].kind = "Replenishment" <=>
                Trimmed(group, log[k].stop) # Trimmed(group, log[k].start)
           /\ EventOfEntry(k).BatchNumber = Trimmed(group, log[k].start)
           /\ EventOfEntry(k).PartNumber = group[log[k].start + 1].PartNumber

\* a halt although an attempt inside the run was on another batch
C1_Witness ==
  /\ Scanning
  /\ \E k \in 1..Len(log) :
       /\ log[k].f = f /\ log[k].part = Head(groups)
       /\ log[k].kind = "Halt"
       /\ \E m \in (log[k].start + 1)..(log[k].stop - 1) :
            Trimmed(group, m) # Trimmed(group, log[k].start)

(***************************************************************************)
(* C2. When the scan of a sequence is over, the records appended for it    *)
(* are, in order, one for each maximal run of 3 or more failures that is   *)
(* followed by a pass, and nothing else.                                   *)
(***************************************************************************)
ResolvedRunStarts(g) ==
  {s \in 0..(Len(g) - 3) :
     /\ Failing(g, s) /\ Failing(g, s + 1) /\ Failing(g, s + 2)
     /\ (s = 0 \/ Passing(g, s - 1))
     /\ HasPassFrom(g, s + 3)}

C2_OneEventPerResolvedRun ==
  SequenceDone =>
    LET em == Emitted(CurLog)
    IN /\ ListsFollowLog
       /\ {em[k].start : k \in 1..Len(em)} = ResolvedRunStarts(group)
       /\ \A k \in 1..(Len(em) - 1) : em[k].start < em[k + 1].start

\* two resolved runs, one of them longer than 3
C2_Witness ==
  /\ SequenceDone
  /\ Len(Emitted(CurLog)) = 2
  /\ \E k \in 1..2 : Emitted(CurLog)[k].stop > Emitted(CurLog)[k].start + 3

(***************************************************************************)
(* C3. The attempts that make up an episode (the three attempts of the     *)
(* window and the resolving attempt) all belong to the board position the  *)
(* record is reported for.                                                 *)
(***************************************************************************)
C3_EpisodeWithinOneComponent ==
  Scanning =>
    \A k \in 1..Len(log) :
      (log[k].f = f /\ log[k].part = Head(groups) /\ log[k].kind # "Dropped") =>
        \A m \in {log[k].start, log[k].start + 1, log[k].start + 2, log[k].stop} :
          group[m + 1].Reference = EventOfEntry(k).Reference

(***************************************************************************)
(* C4. A run of 3 or more failures that reaches the end of the sequence    *)
(* never yields a record, whatever its length and whatever precedes it.    *)
(***************************************************************************)
\* start of the run of failures that ends the sequence (Len(g) if none)
TerminalRunStart(g) ==
  IF \A k \in 0..(Len(g) - 1) : Failing(g, k) THEN 0
  ELSE 1 + CHOOSE j \in 0..(Len(g) - 1) :
             Passing(g, j) /\ \A m \in (j + 1)..(Len(g) - 1) : Failing(g, m)

C4_UnresolvedRunNeverEmitted ==
  (SequenceDone /\ Len(group) - TerminalRunStart(group) >= 3) =>
    /\ RecordsOfSequence = Len(Emitted(CurLog))
    /\ \A k \in 1..Len(CurLog) :
         CurLog[k].start >= TerminalRunStart(group) => CurLog[k].kind = "Dropped"

\* a terminal run of 6 detected twice after an earlier resolved episode
C4_Witness ==
  /\ SequenceDone
  /\ Len(group) - TerminalRunStart(group) = 6
  /\ CountKind(CurLog, "Dropped") = 2
  /\ Len(Emitted(CurLog)) = 1

(***************************************************************************)
(* C5. The records do not depend on blanks at the ends of the batch        *)
(* identifiers: the run on an upload appends the records of the run on the *)
(* same upload with every batch identifier trimmed.                        *)
(***************************************************************************)
TrimBatches(files) ==
  [k \in 1..Len(files) |->
     [files[k] EXCEPT !.rows =
        [m \in 1..Len(files[k].rows) |->
           [files[k].rows[m] EXCEPT !.BatchNumber = Strip(files[k].rows[m].BatchNumber)]]]]

C5_WhitespaceInvariant ==
  pc = "done" =>
    /\ all_halts = EventsOfKind(DetectFiles(TrimBatches(uploaded_files)), "Halt")
    /\ replenishments = EventsOfKind(DetectFiles(TrimBatches(uploaded_files)), "Replenishment")

\* a halt whose two batch identifiers differ only by blanks
C5_Witness ==
  /\ pc = "done"
  /\ \E k \in 1..Len(log) :
       LET g == GroupRows(BuildRelevant(uploaded_files[log[k].f]), log[k].part)
       IN /\ log[k].kind = "Halt"
          /\ g[log[k].start + 1].BatchNumber # g[log[k].stop + 1].BatchNumber

(***************************************************************************)
(* C6. At every point of the scan of a sequence of length n, the records   *)
(* appended for it number at most floor(n/3).                              *)
(***************************************************************************)
C6_AtMostNOver3 == Scanning => RecordsOfSequence <= n \div 3

\* two records for one sequence
C6_Witness == SequenceDone /\ RecordsOfSequence = 2 /\ n >= 8

(***************************************************************************)
(* C7. Once an episode is detected at i, the cursor never again  *)
(* tests an index of its failure run as a window start: i..j when          *)
(* resolved at j, i..n-1 when unresolved.                                  *)
(***************************************************************************)
C7_NeverRetestsRun ==
  (Scanning /\ i <= n - 3) =>
    \A k \in 1..Len(CurLog) :
      i \notin CurLog[k].start..(IF CurLog[k].kind = "Dropped" THEN n - 1 ELSE CurLog[k].stop)

(***************************************************************************)
(* C8. Every row that has its identity fields becomes an         *)
(* attempt; a non-numeric or absent outcome becomes 0.                     *)
(***************************************************************************)
HasIdentity(r) ==
  r.PartNumber # "" /\ r.Description # "" /\ r.Reference # "" /\ r.BatchNumber # <<>>

OutcomeOf(cell) == IF cell = R2 THEN 2 ELSE 0

C8_AbsentOutcomeKept ==
  pc \in {"group", "scan"} =>
    LET kept == SelectSeq(uploaded_files[f].rows, HasIdentity)
    IN /\ Len(df_relevant) = Len(kept)
       /\ \A k \in 1..Len(kept) : df_relevant[k].Result = OutcomeOf(kept[k].Result)

(***************************************************************************)
(* C8, amended. Every row with its identity fields and an outcome cell     *)
(* becomes an attempt with an integer outcome; a non-numeric outcome       *)
(* becomes 0, so the attempt stays in the sequence, breaks a failure run   *)
(* and can resolve an episode.  Rows missing an identity field or the      *)
(* outcome cell are discarded.                                             *)
(***************************************************************************)
HasAllCells(r) == HasIdentity(r) /\ r.Result # <<>>

C8_NonNumericOutcomeIsPass ==
  pc \in {"group", "scan"} =>
    LET kept == SelectSeq(uploaded_files[f].rows, HasAllCells)
    IN /\ Len(df_relevant) = Len(kept)
       /\ \A k \in 1..Len(kept) :
            /\ df_relevant[k].Result = OutcomeOf(kept[k].Result)
            /\ df_relevant[k].PartNumber = kept[k].PartNumber
            /\ df_relevant[k].Reference = kept[k].Reference
            /\ df_relevant[k].BatchNumber = kept[k].BatchNumber
       /\ Scanning =>
            \A k \in 1..Len(CurLog) :
              CurLog[k].kind # "Dropped" => group[CurLog[k].stop + 1].Result = 0

\* an episode resolved by an attempt whose outcome cell is not numeric,
\* in a file that also has a row without outcome cell
C8_Witness ==
  /\ Scanning
  /\ \E r \in 1..Len(uploaded_files[f].rows) :
       HasIdentity(uploaded_files[f].rows[r]) /\ uploaded_files[f].rows[r].Result = <<>>
  /\ \E k \in 1..Len(CurLog) :
       /\ CurLog[k].kind # "Dropped"
       /\ SelectSeq(uploaded_files[f].rows, HasAllCells)[CurLog[k].stop + 1].Result = RX

(***************************************************************************)
(* C9. A file that cannot be read contributes no attempts and no records;  *)
(* the records of the upload are those of the upload without that file,    *)
(* wherever the file stands in the upload order.                           *)
(***************************************************************************)
Readable(files) == SelectSeq(files, LAMBDA x : x.ok)

C9_UnreadableFileSkipped ==
  pc = "done" =>
    /\ all_halts = EventsOfKind(DetectFiles(Readable(uploaded_files)), "Halt")
    /\ replenishments = EventsOfKind(DetectFiles(Readable(uploaded_files)), "Replenishment")
    /\ Len(all_data) = Len(Readable(uploaded_files))
    /\ \A k \in 1..Len(all_data) : all_data[k] = BuildRelevant(Readable(uploaded_files)[k])

\* an unreadable file between two files that each yield a record
C9_Witness ==
  /\ pc = "done"
  /\ Len(uploaded_files) = 3
  /\ uploaded_files[1].ok /\ ~uploaded_files[2].ok /\ uploaded_files[3].ok
  /\ Len(all_halts) + Len(replenishments) = 2

(***************************************************************************)
(* C10. Every iteration of the scan reads only indices in 0..n-1 and moves *)
(* the cursor forward: by 1 when the window does not match, to j+1 >= i+4  *)
(* when the episode is resolved at j, by 3 when it is unresolved.  The     *)
(* loop is left exactly when the cursor exceeds n-3, a sequence of fewer   *)
(* than 3 attempts yields no record, and the whole run ends.               *)
(***************************************************************************)
ScanIterationOK ==
  /\ 0 <= i /\ i + 2 <= n - 1
  /\ i' > i
  /\ IF ~(Failing(group, i) /\ Failing(group, i + 1) /\ Failing(group, i + 2))
       THEN i' = i + 1
     ELSE IF HasPassFrom(group, i + 3)
       THEN /\ IsFirstPassFrom(group, i + 3, i' - 1)
            /\ i' >= i + 4
     ELSE i' = i + 3

C10_ScanTerminates ==
  /\ [][(pc = "scan" /\ pc' = "scan") => ScanIterationOK]_vars
  /\ [][pc = "scan" => (pc' # "scan" <=> i > n - 3)]_vars
  /\ [](pc = "scan" /\ n < 3 => CurLog = <<>> /\ RecordsOfSequence = 0)
  /\ <>(pc = "done")

\* the scan of a sequence with both kinds of episode is over
C10_Witness ==
  /\ SequenceDone
  /\ CountKind(CurLog, "Dropped") >= 1
  /\ Len(Emitted(CurLog)) >= 1

FairSpec == Spec /\ WF_vars(Next)
====
